---- MODULE Spec2Model ----
(***************************************************************************)
(* A model of wasp_eureka.client.EurekaClient (src/wasp_eureka/client.py): *)
(* the client's fields, its lifecycle and query operations, the single     *)
(* request each of them sends through _do_req, and the mapping of the      *)
(* response to the outcome of the call.                                    *)
(*                                                                         *)
(* Conventions.  An Optional[T] value is the empty tuple (None) or the     *)
(* one-element tuple <<v>>.  A request path is the tuple of the segments   *)
(* that the code joins with "/" (the leading "/" is implied), the query    *)
(* string is kept beside it.  A call is split where the code awaits the    *)
(* transport: the operation builds and sends its request (pc becomes       *)
(* "awaiting"), the response or a transport fault ends the call.           *)
(***************************************************************************)
EXTENDS Integers, Sequences, FiniteSets, TLC

VARIABLES
  self,        \* the EurekaClient's fields (__slots__), a record
  pc,          \* "idle" or "awaiting": the caller's position
  call,        \* the running or last call: [op, args], None before the first
  request,     \* the last request handed to the transport, None before the first
  response,    \* the response that ended the last call, None if none
  outcome,     \* how the last call ended, None while none has ended
  nCalls,      \* operations called so far
  nReqs,       \* requests handed to the transport so far
  lastRead,    \* the value the last evaluation of self.instance_id returned
  selfBefore,  \* the client's fields when the running or last call started
  registered,  \* registry side: "never", "registered" or "deregistered"
  wasAbsent,   \* the last call is a deregister() of an instance not registered
  firstRegister, \* [args, request] of the first register() call, None before it
  supplied,    \* the instance_id argument the client was constructed with
  renew404,    \* the instance ID of a renew() that ended in a 404, None if none did
  ctor,        \* the arguments the client was constructed with
  tasks,       \* the coroutines that share the client: what each one is doing
  idsUsed,     \* the instance IDs the coroutines' requests have carried
  wire,        \* the requests the heartbeat runner has put on the wire, in order
  runner       \* the heartbeat runner: its phase, its scheduler, its last job

\* the state of the event loop's coroutines and of the heartbeat runner
sched == <<tasks, idsUsed, wire, runner>>

vars == <<self, pc, call, request, response, outcome, nCalls, nReqs, lastRead,
          selfBefore, registered, wasAbsent, firstRegister, supplied, renew404,
          ctor, tasks, idsUsed, wire, runner>>

----------------------------------------------------------------------------
(* Bounds of the model *)

MaxCalls == 3

\* coroutines that call the client at the same time, and the calls they make
NumTasks == 3
MaxOverlapCalls == 4

\* interval ticks of the heartbeat runners' scheduler
MaxTicks == 2

----------------------------------------------------------------------------
(* Python values *)

None == << >>
Some(v) == << v >>

\* bool(x) of an Optional[str]: None and '' are falsy
Truthy(x) == x # None /\ x[1] # ""

\* bool(d) of an Optional[dict]: None and {} are falsy
TruthyDict(d) == d # None /\ DOMAIN d[1] # {}

\* `a or b`
Or(a, b) == IF Truthy(a) THEN a ELSE b

\* '{}'.format(x) of an Optional[str]
Fmt(x) == IF x = None THEN "None" ELSE x[1]

\* '{}'.format(n) of an Optional[int]
FmtInt(n) == IF n = None THEN "None" ELSE ToString(n[1])

\* str.rstrip('/') of a URL given as its stem and its number of trailing slashes
RStrip(url) == url.stem

----------------------------------------------------------------------------
(* Inputs *)

UUIDs == {"uuid-a", "uuid-b"}
AppNames == {None, Some("orders")}
Ports == {Some(8080)}
IpAddrs == {Some("10.0.0.5")}
Hostnames == {None}
EurekaUrls == {[stem |-> "http://localhost:8765", slashes |-> 0]}
InstanceIds == {None, Some(""), Some("i-1")}
HealthCheckUrls == {None}
StatusPageUrls == {None}

\* the wider choice of constructor arguments of the client that registers once
AllPorts == {None, Some(8080)}
AllHostnames == {None, Some(""), Some("web-1")}
AllEurekaUrls == {[stem |-> "http://localhost:8765", slashes |-> n] : n \in {0, 1}}
AllInstanceIds == {None, Some("i-1")}
AllHealthCheckUrls == {None, Some("http://10.0.0.5:8080/health")}
AllStatusPageUrls == {None, Some("http://10.0.0.5:8080/status")}

\* arguments of the queries: omitted, the empty string, a name of the caller's
AppArgs == {None, Some(""), Some("billing")}
IdArgs == {None, Some(""), Some("i-9")}

\* StatusType
StatusType == {"UP", "DOWN", "STARTING", "OUT_OF_SERVICE", "UNKNOWN"}

\* register()'s metadata argument: omitted, empty, one key
Metadatas == {None, Some(<< >>), Some([zone |-> "a"])}
DefaultLeaseDuration == 60
DefaultLeaseRenewalInterval == 15

\* lease arguments a caller passes to register()
LeaseDurations == {DefaultLeaseDuration, 90}
LeaseRenewalIntervals == {DefaultLeaseRenewalInterval, 30}

\* update_meta()'s arguments
MetaKeys == {"zone"}
MetaValues == {"b"}

\* response statuses the server may answer with
Statuses == {200, 201, 204, 304, 404, 499, 500}

\* response bodies: empty, a JSON document, text that is no JSON
Bodies == {"", "{\"a\": 1}", "<html>"}

\* the bodies a response of status st can carry: 204 and 304 carry none
ResponseBodies(st) == IF st \in {204, 304} THEN {""} ELSE Bodies

\* the members of http.HTTPStatus (those of every Python 3 version)
HTTPStatusValues ==
  {100, 101, 102} \cup (200..208) \cup {226} \cup (300..305) \cup {307, 308}
  \cup (400..417) \cup (421..424) \cup {426, 428, 429, 431}
  \cup (500..508) \cup {510, 511}

----------------------------------------------------------------------------
(* EurekaClient.__init__ *)

EurekaClient(app_name, port, ip_addr, hostname, eureka_url, instance_id, health_check_url, status_page_url) ==
  [ _eureka_url |-> RStrip(eureka_url) \o "/eureka",
    _app_name |-> app_name,
    _port |-> port,
    _hostname |-> Or(hostname, ip_addr),
    _ip_addr |-> ip_addr,
    _health_check_url |-> health_check_url,
    _instance_id |-> instance_id,
    _status_page_url |->
      IF status_page_url = None
        THEN Some("http://" \o Fmt(ip_addr) \o ":" \o FmtInt(port) \o "/info")
        ELSE status_page_url ]

\* EurekaClient._generate_instance_id, u the uuid4 drawn
GenerateInstanceId(s, u) == u \o ":" \o Fmt(s._app_name) \o ":" \o FmtInt(s._port)

\* instance_id as `self._instance_id or self._generate_instance_id()`: an empty
\* supplied ID counts as unset and is replaced
instance_id_falsy(s, u) ==
  LET s1 == IF ~Truthy(s._instance_id)
              THEN [s EXCEPT !._instance_id = Some(GenerateInstanceId(s, u))]
              ELSE s
  IN [self |-> s1, value |-> s1._instance_id[1]]

\* instance_id returning a generated ID without keeping it in the client
instance_id_nostore(s, u) ==
  [self |-> s,
   value |-> IF s._instance_id = None THEN GenerateInstanceId(s, u)
             ELSE s._instance_id[1]]

\* the instance_id property: the client after the read and the value returned
instance_id(s, u) ==
  LET s1 == IF s._instance_id = None
              THEN [s EXCEPT !._instance_id = Some(GenerateInstanceId(s, u))]
              ELSE s
  IN [self |-> s1, value |-> s1._instance_id[1]]

----------------------------------------------------------------------------
(* EurekaClient._do_req *)

\* _do_req issuing its request twice
DoReqTwice(s, path, query, method, data) ==
  LET rq == [method |-> method, base |-> s._eureka_url, path |-> path,
             query |-> query, data |-> data]
  IN << rq, rq >>

\* the first half of _do_req: the requests it hands to the transport, in order
DoReq(s, path, query, method, data) ==
  << [method |-> method, base |-> s._eureka_url, path |-> path,
      query |-> query, data |-> data] >>

\* the range check taking only 4xx for errors
IsErrorStatus4xx(status) == 400 <= status /\ status < 500

\* `400 <= resp.status < 600`
IsErrorStatus(status) == 400 <= status /\ status < 600

\* HTTPStatus(resp.status): the enum member, or ValueError for a value that is
\* no member
HTTPStatus(status) ==
  IF status \in HTTPStatusValues
    THEN [ok |-> TRUE, value |-> status]
    ELSE [ok |-> FALSE, value |-> status]

\* EurekaException(status, text) with its status property
EurekaException(status, text) ==
  [kind |-> "EurekaException", status |-> status, text |-> text]

\* resp.json(): None for an empty body, the document of a JSON body, a decoding
\* error otherwise
RespJson(body) ==
  IF body = "" THEN [ok |-> TRUE, value |-> None]
  ELSE IF body = "{\"a\": 1}" THEN [ok |-> TRUE, value |-> Some([a |-> 1])]
  ELSE [ok |-> FALSE, value |-> None]

\* _do_req taking every status but 200 for a failure
DoReqResultOnly200(status, body) ==
  IF status # 200
    THEN LET h == HTTPStatus(status) IN
           IF h.ok THEN EurekaException(h.value, body)
                   ELSE [kind |-> "ValueError"]
    ELSE LET j == RespJson(body) IN
           IF j.ok THEN [kind |-> "return", value |-> j.value]
                   ELSE [kind |-> "JSONDecodeError"]

\* the second half of _do_req: how the call ends on a response
DoReqResult(status, body) ==
  IF IsErrorStatus(status)
    THEN LET h == HTTPStatus(status) IN
           IF h.ok THEN EurekaException(h.value, body)
                   ELSE [kind |-> "ValueError"]
    ELSE LET j == RespJson(body) IN
           IF j.ok THEN [kind |-> "return", value |-> j.value]
                   ELSE [kind |-> "JSONDecodeError"]

\* how a call ends for its caller: it returns or it raises
EndOf(o) == IF o.kind = "return" THEN "ok" ELSE "raised"

----------------------------------------------------------------------------
(* The operations: each gives the client after the call's synchronous part,  *)
(* the value it read from self.instance_id (None if it read none) and the    *)
(* requests it sent.                                                         *)

NoFields == [k \in {} |-> k]
FieldIf(cond, f) == IF cond THEN f ELSE NoFields

\* the payload with its port always marked enabled
PayloadPortEnabled(s, id, metadata, lease_duration, lease_renewal_interval) ==
  [instance |->
     [ instanceId |-> id,
       leaseInfo |-> [durationInSecs |-> lease_duration,
                      renewalIntervalInSecs |-> lease_renewal_interval],
       port |-> ("$" :> s._port) @@ ("@enabled" :> TRUE),
       hostName |-> s._hostname,
       app |-> s._app_name,
       ipAddr |-> s._ip_addr,
       vipAddress |-> s._app_name,
       dataCenterInfo |-> ("@class" :> "com.netflix.appinfo.MyDataCenterInfo")
                          @@ ("name" :> "MyOwn") ]
     @@ FieldIf(s._health_check_url # None,
                [healthCheckUrl |-> s._health_check_url[1]])
     @@ FieldIf(s._status_page_url # None,
                [statusPageUrl |-> s._status_page_url[1]])
     @@ FieldIf(TruthyDict(metadata), [metadata |-> metadata[1]]) ]

\* the `payload` dict of register(), json.dumps'ed: nullable leaves are Optional
Payload(s, id, metadata, lease_duration, lease_renewal_interval) ==
  [instance |->
     [ instanceId |-> id,
       leaseInfo |-> [durationInSecs |-> lease_duration,
                      renewalIntervalInSecs |-> lease_renewal_interval],
       port |-> ("$" :> s._port) @@ ("@enabled" :> (s._port # None)),
       hostName |-> s._hostname,
       app |-> s._app_name,
       ipAddr |-> s._ip_addr,
       vipAddress |-> s._app_name,
       dataCenterInfo |-> ("@class" :> "com.netflix.appinfo.MyDataCenterInfo")
                          @@ ("name" :> "MyOwn") ]
     @@ FieldIf(s._health_check_url # None,
                [healthCheckUrl |-> s._health_check_url[1]])
     @@ FieldIf(s._status_page_url # None,
                [statusPageUrl |-> s._status_page_url[1]])
     @@ FieldIf(TruthyDict(metadata), [metadata |-> metadata[1]]) ]

\* register() sending the _instance_id field as it is, without the property
register_raw_field(s, u, metadata, lease_duration, lease_renewal_interval) ==
  [self |-> s, read |-> None,
   sent |-> DoReq(s, <<"apps", Fmt(s._app_name)>>, "", "POST",
                  Some(Payload(s, Fmt(s._instance_id), metadata, lease_duration,
                               lease_renewal_interval)))]

register(s, u, metadata, lease_duration, lease_renewal_interval) ==
  LET r == instance_id(s, u) IN
    [self |-> r.self, read |-> Some(r.value),
     sent |-> DoReq(r.self, <<"apps", Fmt(s._app_name)>>, "", "POST",
                    Some(Payload(r.self, r.value, metadata, lease_duration,
                                 lease_renewal_interval)))]

\* renew() assigning a newly generated ID to the client on every call
renew_regenerate(s, u) ==
  LET s1 == [s EXCEPT !._instance_id = Some(GenerateInstanceId(s, u))] IN
    [self |-> s1, read |-> None,
     sent |-> DoReq(s1, <<"apps", Fmt(s._app_name), s1._instance_id[1]>>, "",
                    "PUT", None)]

\* renew() addressing a freshly generated ID instead of the property's value
renew_fresh(s, u) ==
  LET id == GenerateInstanceId(s, u) IN
    [self |-> s, read |-> None,
     sent |-> DoReq(s, <<"apps", Fmt(s._app_name), id>>, "", "PUT", None)]

renew(s, u) ==
  LET r == instance_id(s, u) IN
    [self |-> r.self, read |-> Some(r.value),
     sent |-> DoReq(r.self, <<"apps", Fmt(s._app_name), r.value>>, "", "PUT",
                    None)]

\* deregister() forgetting the instance ID once it has addressed the request
deregister_forget(s, u) ==
  LET r == instance_id(s, u) IN
    [self |-> [r.self EXCEPT !._instance_id = None], read |-> Some(r.value),
     sent |-> DoReq(r.self, <<"apps", Fmt(s._app_name), r.value>>, "",
                    "DELETE", None)]

deregister(s, u) ==
  LET r == instance_id(s, u) IN
    [self |-> r.self, read |-> Some(r.value),
     sent |-> DoReq(r.self, <<"apps", Fmt(s._app_name), r.value>>, "",
                    "DELETE", None)]

set_status_override(s, u, status) ==
  LET r == instance_id(s, u) IN
    [self |-> r.self, read |-> Some(r.value),
     sent |-> DoReq(r.self, <<"apps", Fmt(s._app_name), r.value, "status">>,
                    "value=" \o status, "PUT", None)]

remove_status_override(s, u) ==
  LET r == instance_id(s, u) IN
    [self |-> r.self, read |-> Some(r.value),
     sent |-> DoReq(r.self, <<"apps", Fmt(s._app_name), r.value, "status">>,
                    "", "DELETE", None)]

update_meta(s, u, key, value) ==
  LET r == instance_id(s, u) IN
    [self |-> r.self, read |-> Some(r.value),
     sent |-> DoReq(r.self, <<"apps", Fmt(s._app_name), r.value, "metadata">>,
                    key \o "=" \o value, "PUT", None)]

get_apps(s) ==
  [self |-> s, read |-> None, sent |-> DoReq(s, <<"apps">>, "", "GET", None)]

get_app(s, app_name) ==
  LET a == Or(app_name, s._app_name) IN
    [self |-> s, read |-> None,
     sent |-> DoReq(s, <<"apps", Fmt(a)>>, "", "GET", None)]

\* get_app_instance() reading the property before it looks at its argument
get_app_instance_eager(s, u, app_name, instance_id_arg) ==
  LET a == Or(app_name, s._app_name)
      p == instance_id(s, u)
      v == IF Truthy(instance_id_arg) THEN instance_id_arg[1] ELSE p.value
  IN [self |-> p.self, read |-> Some(p.value),
      sent |-> DoReq(p.self, <<"apps", Fmt(a), v>>, "", "GET", None)]

\* `instance_id or self.instance_id`: the property is read only when the
\* argument is falsy
get_app_instance(s, u, app_name, instance_id_arg) ==
  LET a == Or(app_name, s._app_name)
      r == IF Truthy(instance_id_arg)
             THEN [self |-> s, value |-> instance_id_arg[1], read |-> None]
             ELSE LET p == instance_id(s, u)
                  IN [self |-> p.self, value |-> p.value, read |-> Some(p.value)]
  IN [self |-> r.self, read |-> r.read,
      sent |-> DoReq(r.self, <<"apps", Fmt(a), r.value>>, "", "GET", None)]

get_instance(s, u, instance_id_arg) ==
  LET r == IF Truthy(instance_id_arg)
             THEN [self |-> s, value |-> instance_id_arg[1], read |-> None]
             ELSE LET p == instance_id(s, u)
                  IN [self |-> p.self, value |-> p.value, read |-> Some(p.value)]
  IN [self |-> r.self, read |-> r.read,
      sent |-> DoReq(r.self, <<"instances", r.value>>, "", "GET", None)]

get_by_vip(s, vip_address) ==
  LET v == Or(vip_address, s._app_name) IN
    [self |-> s, read |-> None,
     sent |-> DoReq(s, <<"vips", Fmt(v)>>, "", "GET", None)]

get_by_svip(s, svip_address) ==
  LET v == Or(svip_address, s._app_name) IN
    [self |-> s, read |-> None,
     sent |-> DoReq(s, <<"vips", Fmt(v)>>, "", "GET", None)]

----------------------------------------------------------------------------
\* a client constructed with arguments drawn from the given sets, no call made
Constructed(A, P, IP, H, E, I, HC, SP) ==
  /\ \E a \in A, p \in P, ip \in IP, h \in H, e \in E, i \in I, hc \in HC,
        sp \in SP :
       /\ self = EurekaClient(a, p, ip, h, e, i, hc, sp)
       /\ supplied = i
       /\ ctor = [app_name |-> a, port |-> p, ip_addr |-> ip, hostname |-> h,
                  eureka_url |-> e, instance_id |-> i, health_check_url |-> hc,
                  status_page_url |-> sp]
  /\ pc = "idle"
  /\ call = None
  /\ request = None
  /\ response = None
  /\ outcome = None
  /\ nCalls = 0
  /\ nReqs = 0
  /\ lastRead = None
  /\ selfBefore = None
  /\ registered = "never"
  /\ wasAbsent = FALSE
  /\ firstRegister = None
  /\ renew404 = None

\* no coroutine but the caller's, no heartbeat runner
NoSched ==
  /\ tasks = << >>
  /\ idsUsed = {}
  /\ wire = << >>
  /\ runner = None

Init ==
  /\ Constructed(AppNames, Ports, IpAddrs, Hostnames, EurekaUrls, InstanceIds,
                 HealthCheckUrls, StatusPageUrls)
  /\ NoSched

\* uuid.uuid4() is drawn only when an instance ID is generated
Draws == IF self._instance_id = None THEN UUIDs ELSE {"unused"}

\* a caller reads the instance_id property
ReadInstanceId ==
  /\ pc = "idle"
  /\ \E u \in Draws :
       LET r == instance_id(self, u) IN
         /\ self' = r.self
         /\ lastRead' = Some(r.value)
  /\ UNCHANGED <<pc, call, request, response, outcome, nCalls, nReqs,
                 selfBefore, registered, wasAbsent, firstRegister, supplied,
                 renew404, ctor, sched>>

\* the caller starts operation op with arguments args; r is what the operation
\* does up to the point where _do_req awaits the response
StartCall(op, args, r) ==
  /\ pc = "idle"
  /\ self' = r.self
  /\ lastRead' = IF r.read = None THEN lastRead ELSE r.read
  /\ call' = Some([op |-> op, args |-> args])
  /\ request' = Some(r.sent[Len(r.sent)])
  /\ nReqs' = nReqs + Len(r.sent)
  /\ nCalls' = nCalls + 1
  /\ pc' = "awaiting"
  /\ response' = None
  /\ outcome' = None
  /\ selfBefore' = Some(self)
  /\ wasAbsent' = (op = "deregister" /\ registered # "registered")
  /\ firstRegister' = IF op = "register" /\ firstRegister = None
                        THEN Some([args |-> args, request |-> r.sent[Len(r.sent)]])
                        ELSE firstRegister
  /\ UNCHANGED <<registered, supplied, renew404, ctor, sched>>

\* a call of the bounded run of calls
Start(op, args, r) == nCalls < MaxCalls /\ StartCall(op, args, r)

Register ==
  \E u \in Draws, m \in Metadatas :
    Start("register", <<m, DefaultLeaseDuration, DefaultLeaseRenewalInterval>>,
          register(self, u, m, DefaultLeaseDuration, DefaultLeaseRenewalInterval))

Renew == \E u \in Draws : Start("renew", << >>, renew(self, u))

Deregister == \E u \in Draws : Start("deregister", << >>, deregister(self, u))

SetStatusOverride ==
  \E u \in Draws, st \in StatusType :
    Start("set_status_override", <<st>>, set_status_override(self, u, st))

RemoveStatusOverride ==
  \E u \in Draws :
    Start("remove_status_override", << >>, remove_status_override(self, u))

UpdateMeta ==
  \E u \in Draws, k \in MetaKeys, v \in MetaValues :
    Start("update_meta", <<k, v>>, update_meta(self, u, k, v))

GetApps == Start("get_apps", << >>, get_apps(self))

GetApp == \E a \in AppArgs : Start("get_app", <<a>>, get_app(self, a))

GetAppInstance ==
  \E u \in Draws, a \in AppArgs, i \in IdArgs :
    Start("get_app_instance", <<a, i>>, get_app_instance(self, u, a, i))

GetInstance ==
  \E u \in Draws, i \in IdArgs :
    Start("get_instance", <<i>>, get_instance(self, u, i))

GetByVip == \E a \in AppArgs : Start("get_by_vip", <<a>>, get_by_vip(self, a))

GetBySvip == \E a \in AppArgs : Start("get_by_svip", <<a>>, get_by_svip(self, a))

\* the running call ends with outcome o
Finish(o) ==
  /\ outcome' = Some(o)
  /\ pc' = "idle"
  /\ renew404' = IF /\ call[1].op = "renew"
                    /\ o.kind = "EurekaException"
                    /\ o.status = 404
                   THEN Some(request[1].path[3])
                   ELSE renew404
  /\ UNCHANGED <<self, call, request, nCalls, nReqs, lastRead, selfBefore,
                 wasAbsent, firstRegister, supplied, ctor, sched>>

\* the registry answers the request in flight
Respond ==
  /\ pc = "awaiting"
  /\ \E st \in Statuses :
     \E b \in ResponseBodies(st) :
       /\ response' = Some([status |-> st, body |-> b])
       /\ Finish(DoReqResult(st, b))
       /\ registered' =
            IF st \in 200..299 /\ call[1].op = "register" THEN "registered"
            ELSE IF /\ st \in 200..299
                    /\ call[1].op = "deregister"
                    /\ registered = "registered" THEN "deregistered"
            ELSE registered

\* the transport's failure reported as an error answer of the registry
DoReqFaultWrapped == [kind |-> "EurekaException", status |-> 503, text |-> ""]

\* _SESSION.request raises (connection refused, timeout); _do_req has no
\* except clause, so the caller gets the transport's own exception
DoReqFault == [kind |-> "TransportError"]

\* the transport fails: the call in flight ends in DoReqFault
TransportFault ==
  /\ pc = "awaiting"
  /\ response' = None
  /\ Finish(DoReqFault)
  /\ UNCHANGED registered

Next ==
  \/ ReadInstanceId
  \/ Register
  \/ Renew
  \/ Deregister
  \/ SetStatusOverride
  \/ RemoveStatusOverride
  \/ UpdateMeta
  \/ GetApps
  \/ GetApp
  \/ GetAppInstance
  \/ GetInstance
  \/ GetByVip
  \/ GetBySvip
  \/ Respond
  \/ TransportFault

Spec == Init /\ [][Next]_vars

----------------------------------------------------------------------------
(* Coroutines of one event loop that call the same client at the same time. *)
(* A coroutine runs without interruption up to its next await: an operation *)
(* builds its URL and payload, reading instance_id, and first yields inside *)
(* _do_req, where it awaits the response.                                   *)

Tasks == 1..NumTasks

\* the operations the coroutines call; every one of them reads instance_id
OverlapOps == {"renew", "register", "get_instance"}

\* what operation op does up to the await in _do_req, u the uuid4 drawn
OverlapCall(op, s, u) ==
  CASE op = "renew" -> renew(s, u)
    [] op = "register" ->
         register(s, u, None, DefaultLeaseDuration, DefaultLeaseRenewalInterval)
    [] op = "get_instance" -> get_instance(s, u, None)

\* the instance ID a request of operation op carries
IdOfRequest(op, rq) ==
  CASE op = "renew" -> rq.path[3]
    [] op = "register" -> rq.data[1].instance.instanceId
    [] op = "get_instance" -> rq.path[2]
    [] op = "deregister" -> rq.path[3]

InitOverlap ==
  /\ Constructed(AppNames, Ports, IpAddrs, Hostnames, EurekaUrls,
                 AllInstanceIds, HealthCheckUrls, StatusPageUrls)
  /\ tasks = [t \in Tasks |-> [pc |-> "ready"]]
  /\ idsUsed = {}
  /\ wire = << >>
  /\ runner = None

\* the variables of the single caller, which the coroutines do not use
callerVars == <<pc, call, request, response, outcome, nReqs, lastRead,
                selfBefore, registered, wasAbsent, firstRegister, supplied,
                renew404, ctor>>

\* coroutine t calls an operation and runs up to the await in _do_req; it
\* may be its first call or a later one, made while others are in flight
TaskStart(t) ==
  /\ tasks[t].pc \in {"ready", "done"}
  /\ nCalls < MaxOverlapCalls
  /\ \E op \in OverlapOps, u \in Draws :
       LET r == OverlapCall(op, self, u)
           id == IdOfRequest(op, r.sent[Len(r.sent)])
       IN /\ self' = r.self
          /\ tasks' = [tasks EXCEPT ![t] = [pc |-> "awaiting", op |-> op,
                                            id |-> id]]
          /\ idsUsed' = idsUsed \cup {id}
  /\ nCalls' = nCalls + 1
  /\ UNCHANGED <<callerVars, wire, runner>>

\* the response to coroutine t's request arrives and its call ends
TaskRespond(t) ==
  /\ tasks[t].pc = "awaiting"
  /\ \E st \in Statuses :
     \E b \in ResponseBodies(st) :
       tasks' = [tasks EXCEPT ![t] = [pc |-> "done", op |-> tasks[t].op,
                                      id |-> tasks[t].id,
                                      ended |-> EndOf(DoReqResult(st, b))]]
  /\ UNCHANGED <<self, nCalls, idsUsed, callerVars, wire, runner>>

\* the transport fails under coroutine t's request
TaskFault(t) ==
  /\ tasks[t].pc = "awaiting"
  /\ tasks' = [tasks EXCEPT ![t] = [pc |-> "done", op |-> tasks[t].op,
                                    id |-> tasks[t].id,
                                    ended |-> EndOf(DoReqFault)]]
  /\ UNCHANGED <<self, nCalls, idsUsed, callerVars, wire, runner>>

NextOverlap ==
  \E t \in Tasks : TaskStart(t) \/ TaskRespond(t) \/ TaskFault(t)

SpecOverlap == InitOverlap /\ [][NextOverlap]_vars

----------------------------------------------------------------------------
(* The heartbeat runners: the package's `python -m wasp_eureka` and the      *)
(* example script. Both register, start an interval job renew_lease on an    *)
(* AsyncIOScheduler, run the loop until KeyboardInterrupt and deregister.    *)
(* The scheduler runs at most one instance of the job at a time, logs an     *)
(* exception that escapes the job and goes on with the next tick.            *)

RunnerKinds == {"package", "example"}

\* http.HTTPStatus.NOT_FOUND
NOT_FOUND == 404

\* every way a call of the client can end once its request is sent
Outcomes ==
  UNION {{DoReqResult(st, b) : b \in ResponseBodies(st)} : st \in Statuses}
    \cup {DoReqFault}

\* what the runner sees of an outcome: its kind and, of a EurekaException,
\* e.status
Seen(o) ==
  [kind |-> o.kind,
   status |-> IF o.kind = "EurekaException" THEN o.status ELSE 0]

\* renew_lease's `except EurekaException`, in both runners
Caught(o) == o.kind = "EurekaException"

\* a renew_lease that re-registers on any EurekaException
ReRegistersAny(k, o) == k = "package" /\ Caught(o)

\* the package's renew_lease: `if e.status == HTTPStatus.NOT_FOUND` inside
\* the except clause; the example's renew_lease never registers
ReRegisters(k, o) == k = "package" /\ Caught(o) /\ o.status = NOT_FOUND

\* the exception that leaves renew_lease when a call of it ends in o and
\* the except clause (if the call is inside the try) does not catch it
Escapes(o, guarded) ==
  IF o.kind = "return" \/ (guarded /\ Caught(o)) THEN "none" ELSE o.kind

\* the phases of the main program in which the scheduler's timer is armed:
\* the package calls scheduler.shutdown() before it deregisters, the
\* example never does
TimerArmed(k) ==
  IF k = "package" THEN {"running"} ELSE {"running", "deregistering"}

\* the phases in which the event loop runs the job's coroutine
LoopRuns == {"running", "deregistering"}

\* whether scheduler.shutdown() cancels a job in flight: the AsyncIOExecutor
\* of APScheduler 3.3 leaves it running, later releases cancel it
ShutdownCancels(k, job) ==
  IF k = "package" /\ job \in {"renewing", "registering"}
    THEN BOOLEAN ELSE {FALSE}

\* entries of the wire log: a request sent, a call ended (EndOf)
Event(ev, op, by) == [ev |-> ev, op |-> op, by |-> by]

\* a request as the registry identifies it: app name and instance ID
Target(op, rq) == [app |-> rq.path[2], id |-> IdOfRequest(op, rq)]

InitHeartbeat ==
  /\ Constructed(AppNames, Ports, IpAddrs, Hostnames, EurekaUrls,
                 AllInstanceIds, HealthCheckUrls, StatusPageUrls)
  /\ tasks = << >>
  /\ idsUsed = {}
  /\ wire = << >>
  /\ \E k \in RunnerKinds :
       runner = [kind |-> k, main |-> "init", job |-> "idle", ticks |-> 0,
                 renewReq |-> None, renewOutcome |-> None,
                 registerReqs |-> << >>, escaped |-> "none"]

\* what the runners leave alone
hbFrame == <<callerVars, nCalls, tasks, idsUsed>>

\* loop.run_until_complete(eureka.register()): the request is sent
MainRegister ==
  /\ runner.main = "init"
  /\ \E u \in Draws :
       LET r == register(self, u, None, DefaultLeaseDuration,
                         DefaultLeaseRenewalInterval)
       IN /\ self' = r.self
          /\ wire' = Append(wire, Event("sent", "register", "main"))
  /\ runner' = [runner EXCEPT !.main = "registering"]
  /\ UNCHANGED hbFrame

\* the initial register() ends: on success the job is scheduled and the loop
\* runs; an exception leaves the program before its try block
MainRegisterDone ==
  /\ runner.main = "registering"
  /\ \E o \in Outcomes :
       /\ wire' = Append(wire, Event(EndOf(o), "register", "main"))
       /\ runner' = [runner EXCEPT
                       !.main = IF o.kind = "return" THEN "running"
                                ELSE "failed"]
  /\ UNCHANGED <<self, hbFrame>>

\* the interval trigger fires and renew_lease runs up to `await eureka.renew()`
Tick ==
  /\ runner.main \in TimerArmed(runner.kind)
  /\ runner.job \notin {"renewing", "registering"}
  /\ runner.ticks < MaxTicks
  /\ \E u \in Draws :
       LET r == renew(self, u)
           rq == r.sent[Len(r.sent)]
       IN /\ self' = r.self
          /\ wire' = Append(wire, Event("sent", "renew", "job"))
          /\ runner' = [runner EXCEPT !.job = "renewing",
                                      !.ticks = @ + 1,
                                      !.renewReq = Some(Target("renew", rq)),
                                      !.renewOutcome = None,
                                      !.registerReqs = << >>,
                                      !.escaped = "none"]
  /\ UNCHANGED hbFrame

\* the renew() of renew_lease ends: the job returns, logs the error, lets an
\* exception escape or, in the package's runner on a 404, calls register()
RenewLeaseRenewDone ==
  /\ runner.job = "renewing"
  /\ runner.main \in LoopRuns
  /\ \E o \in Outcomes, u \in Draws :
       IF ReRegisters(runner.kind, o)
         THEN LET r == register(self, u, None, DefaultLeaseDuration,
                                DefaultLeaseRenewalInterval)
                  rq == r.sent[Len(r.sent)]
              IN /\ self' = r.self
                 /\ wire' = wire \o <<Event(EndOf(o), "renew", "job"),
                                       Event("sent", "register", "job")>>
                 /\ runner' = [runner EXCEPT
                                 !.job = "registering",
                                 !.renewOutcome = Some(Seen(o)),
                                 !.registerReqs =
                                    Append(@, Target("register", rq))]
         ELSE /\ self' = self
              /\ wire' = Append(wire, Event(EndOf(o), "renew", "job"))
              /\ runner' = [runner EXCEPT !.job = "idle",
                                          !.renewOutcome = Some(Seen(o)),
                                          !.escaped = Escapes(o, TRUE)]
  /\ UNCHANGED hbFrame

\* the register() that renew_lease awaits inside its except clause ends
RenewLeaseRegisterDone ==
  /\ runner.job = "registering"
  /\ runner.main \in LoopRuns
  /\ \E o \in Outcomes :
       /\ wire' = Append(wire, Event(EndOf(o), "register", "job"))
       /\ runner' = [runner EXCEPT !.job = "idle",
                                   !.escaped = Escapes(o, FALSE)]
  /\ UNCHANGED <<self, hbFrame>>

\* KeyboardInterrupt ends run_forever; the finally block shuts the scheduler
\* down (package only) and sends the deregister request
KeyboardInterrupt ==
  /\ runner.main = "running"
  /\ \E u \in Draws, cancel \in ShutdownCancels(runner.kind, runner.job) :
       LET r == deregister(self, u)
       IN /\ self' = r.self
          /\ wire' = Append(wire, Event("sent", "deregister", "main"))
          /\ runner' = [runner EXCEPT
                          !.main = "deregistering",
                          !.job = IF cancel THEN "cancelled" ELSE @]
  /\ UNCHANGED hbFrame

\* the deregister() ends, run_until_complete returns or raises, the loop
\* never runs again
MainDeregisterDone ==
  /\ runner.main = "deregistering"
  /\ \E o \in Outcomes :
       wire' = Append(wire, Event(EndOf(o), "deregister", "main"))
  /\ runner' = [runner EXCEPT !.main = "closed"]
  /\ UNCHANGED <<self, hbFrame>>

NextHeartbeat ==
  \/ MainRegister
  \/ MainRegisterDone
  \/ Tick
  \/ RenewLeaseRenewDone
  \/ RenewLeaseRegisterDone
  \/ KeyboardInterrupt
  \/ MainDeregisterDone

SpecHeartbeat == InitHeartbeat /\ [][NextHeartbeat]_vars

----------------------------------------------------------------------------
(* A client of any configuration that registers once *)

InitRegister ==
  /\ Constructed(AppNames, AllPorts, IpAddrs, AllHostnames, AllEurekaUrls,
                 AllInstanceIds, AllHealthCheckUrls, AllStatusPageUrls)
  /\ NoSched

RegisterOnce ==
  /\ call = None
  /\ \E u \in Draws, m \in Metadatas, ld \in LeaseDurations,
        lri \in LeaseRenewalIntervals :
       StartCall("register", <<m, ld, lri>>, register(self, u, m, ld, lri))

NextRegister == RegisterOnce \/ Respond \/ TransportFault

SpecRegister == InitRegister /\ [][NextRegister]_vars

----------------------------------------------------------------------------
(* Shorthands for the running or last call *)

Op == IF call = None THEN "none" ELSE call[1].op
Args == call[1].args
Req == request[1]
Ended == pc = "idle" /\ outcome # None
Answered == pc = "idle" /\ response # None
Status == response[1].status
Body == response[1].body
Kind == outcome[1].kind
InstanceIdSent == Req.data[1].instance.instanceId

WriteOps == {"register", "renew", "deregister", "set_status_override",
             "remove_status_override", "update_meta"}

\* the bodies resp.json() decodes: the empty one and the JSON document
DecodableBodies == {"", "{\"a\": 1}"}

----------------------------------------------------------------------------
(* C1: once the instance ID has a value, supplied or generated, no step    *)
(* changes it, and every read of instance_id made from then on returns it. *)
C1_InstanceIdNeverChanges ==
  [][self._instance_id # None =>
       /\ self'._instance_id = self._instance_id
       /\ (lastRead' # None => lastRead' = self._instance_id)]_vars

\* a lazily generated ID has been read again after two calls, the last failed
C1_Witness ==
  /\ supplied = None
  /\ nCalls >= 2
  /\ Ended /\ Kind = "EurekaException"
  /\ lastRead = self._instance_id
  /\ selfBefore[1]._instance_id = self._instance_id

(* C2: every call answered with a status s in [400,600) fails with a       *)
(* EurekaException whose status is s.                                      *)
C2_ErrorStatusRaisesEurekaException ==
  Answered /\ Status \in 400..599 =>
    Kind = "EurekaException" /\ outcome[1].status = Status

(* C3 as stated: a write operation succeeds (returns without raising) if   *)
(* and only if the response status is 2xx, whatever the body.              *)
C3_SuccessIffStatus2xx ==
  Answered /\ Op \in WriteOps => (Kind = "return" <=> Status \in 200..299)

(* C3 as amended: a write operation returns without raising if and only if *)
(* the status is outside [400,600) and the body is empty or JSON; it then  *)
(* returns the decoded body, None for an empty one; 200, 201 and 204 with  *)
(* an empty body return None.                                              *)
C3_ReturnsIffNotErrorAndDecodable ==
  Answered /\ Op \in WriteOps =>
    /\ Kind = "return" <=> (Status \notin 400..599 /\ Body \in DecodableBodies)
    /\ Kind = "return" => (outcome[1].value = None <=> Body = "")
    /\ Status \in {200, 201, 204} /\ Body = "" =>
         outcome[1] = [kind |-> "return", value |-> None]

\* register() answered 204 with an empty body returned None
C3_Witness ==
  /\ Answered /\ Op = "register" /\ Status = 204 /\ Body = ""
  /\ outcome[1] = [kind |-> "return", value |-> None]

(* C4: every call sends exactly one request, the one its operation         *)
(* addresses, whatever answer or fault ends the call.                      *)
C4_OneRequestPerCall ==
  /\ nReqs = nCalls
  /\ call # None =>
       Req.method = CASE Op = "register" -> "POST"
                      [] Op \in {"renew", "set_status_override", "update_meta"}
                           -> "PUT"
                      [] Op \in {"deregister", "remove_status_override"}
                           -> "DELETE"
                      [] OTHER -> "GET"
  /\ Op = "renew" => Len(Req.path) = 3 /\ Req.data = None

\* a second call has ended in a transport fault after a failed first one
C4_Witness ==
  /\ nCalls >= 2 /\ Ended /\ Kind = "TransportError" /\ Op = "renew"

(* C5: the instanceId of every register descriptor and the instance ID in  *)
(* the path of every renew, deregister, status and metadata request is the *)
(* client's instance ID, and the app segment is the client's app name.     *)
C5_RequestsScopedToIdentity ==
  /\ Op \in WriteOps =>
       /\ self._instance_id # None
       /\ Req.path[1] = "apps"
       /\ Req.path[2] = Fmt(self._app_name)
       /\ Op = "register" =>
            Len(Req.path) = 2 /\ InstanceIdSent = self._instance_id[1]
       /\ Op # "register" => Req.path[3] = self._instance_id[1]
  /\ firstRegister # None =>
       firstRegister[1].request.data[1].instance.instanceId
         = self._instance_id[1]

\* a later register follows a first call that was no register and generated
\* the ID
C5_Witness ==
  /\ supplied = None
  /\ nCalls >= 2
  /\ Op = "register"
  /\ firstRegister[1].request = Req
  /\ selfBefore[1]._instance_id # None
  /\ lastRead = Some(InstanceIdSent)

(* C6 as stated: a renew() that ends in a 404 EurekaException leaves every *)
(* field of the client as it was before the call.                          *)
C6_Renew404LeavesClientUnchanged ==
  Ended /\ Op = "renew" /\ Kind = "EurekaException" /\ outcome[1].status = 404
    => self = selfBefore[1]

(* C6 as amended: a renew() that ends in a 404 EurekaException changes no  *)
(* field of the client but _instance_id, and changes _instance_id only by  *)
(* generating it when it was still unset before the call; a register()     *)
(* issued after such a renew sends that same instance ID and app name and  *)
(* returns whenever it is answered 2xx with an empty or JSON body.         *)
C6_Renew404ChangesOnlyUnsetId ==
  /\ Ended /\ Op = "renew" /\ Kind = "EurekaException" /\ outcome[1].status = 404
       => /\ [self EXCEPT !._instance_id = None]
               = [selfBefore[1] EXCEPT !._instance_id = None]
          /\ selfBefore[1]._instance_id # None => self = selfBefore[1]
          /\ self._instance_id # None
          /\ renew404 = self._instance_id
  /\ renew404 # None /\ Op = "register"
       => /\ InstanceIdSent = renew404[1]
          /\ Req.path = <<"apps", Fmt(self._app_name)>>
          /\ Answered /\ Status \in 200..299 /\ Body \in DecodableBodies
               => Kind = "return"

\* after a renew() that met a 404, a register() with the same ID has returned
C6_Witness ==
  /\ renew404 # None
  /\ Op = "register" /\ Answered /\ Status = 204 /\ Kind = "return"
  /\ InstanceIdSent = renew404[1]

(* C7 as stated: a deregister() of an instance that is not registered ends *)
(* in success or in a EurekaException with status 404 (the calls that end  *)
(* in the ValueError of an unknown status code, the subject of C2, are set *)
(* aside here).                                                            *)
C7_DeregisterAbsentSuccessOr404 ==
  Ended /\ Op = "deregister" /\ wasAbsent /\ Kind # "ValueError" =>
    \/ Kind = "return"
    \/ Kind = "EurekaException" /\ outcome[1].status = 404

(* C7 as amended: a deregister() of an instance that is not registered     *)
(* which the registry answers with 404, or with 2xx and an empty or JSON   *)
(* body, ends in a EurekaException with status 404 or in success.          *)
C7_DeregisterAbsentAnswered2xxOr404 ==
  /\ Answered /\ Op = "deregister" /\ wasAbsent
  /\ Status = 404 \/ (Status \in 200..299 /\ Body \in DecodableBodies)
  => \/ Kind = "return" /\ Status \in 200..299
     \/ Kind = "EurekaException" /\ outcome[1].status = 404 /\ Status = 404

\* a deregister() of an instance deregistered before has met a 404
C7_Witness ==
  /\ Ended /\ Op = "deregister" /\ wasAbsent /\ registered = "deregistered"
  /\ Kind = "EurekaException" /\ outcome[1].status = 404

(* C8: no call changes a field of the client other than the lazily set     *)
(* instance ID, so the request of an operation depends on no earlier call: *)
(* every register() sends the request the first register() with the same   *)
(* arguments sent, also after a deregister(); and the outcome of a call is *)
(* the image of its response under _do_req's mapping, whatever came before. *)
C8_HistoryIndependent ==
  /\ [](firstRegister # None /\ Op = "register"
          /\ Args = firstRegister[1].args
          => Req = firstRegister[1].request)
  /\ [](Answered => outcome[1] = DoReqResult(Status, Body))
  /\ [][[self' EXCEPT !._instance_id = None]
          = [self EXCEPT !._instance_id = None]]_vars

\* a register() is in flight after a register() and a deregister() succeeded,
\* with the arguments of the first
C8_Witness ==
  /\ pc = "awaiting" /\ Op = "register" /\ registered = "deregistered"
  /\ Args = firstRegister[1].args
  /\ Req = firstRegister[1].request

(* C9 as stated: a query uses an argument whenever one is given, the       *)
(* client's own value otherwise, and a query given an instance ID          *)
(* generates none.                                                         *)
C9_QueryUsesGivenArgument ==
  /\ Op \in {"get_app", "get_by_vip", "get_by_svip", "get_app_instance"} =>
       Req.path[2] = IF Args[1] # None THEN Args[1][1]
                     ELSE Fmt(self._app_name)
  /\ Op = "get_app_instance" =>
       /\ Req.path[3] = IF Args[2] # None THEN Args[2][1]
                        ELSE self._instance_id[1]
       /\ Args[2] # None /\ pc = "awaiting" => self = selfBefore[1]
  /\ Op = "get_instance" =>
       /\ Req.path[2] = IF Args[1] # None THEN Args[1][1]
                        ELSE self._instance_id[1]
       /\ Args[1] # None /\ pc = "awaiting" => self = selfBefore[1]

(* C9 as amended: a query uses an argument that is given and not the empty *)
(* string, and otherwise the client's own app name or instance ID, each    *)
(* parameter of get_app_instance apart; a query given a non-empty instance *)
(* ID generates none: the client is unchanged when its request is sent.    *)
C9_QueryUsesNonEmptyArgument ==
  /\ Op \in {"get_app", "get_by_vip", "get_by_svip", "get_app_instance"} =>
       Req.path[2] = IF Args[1] \notin {None, Some("")} THEN Args[1][1]
                     ELSE Fmt(self._app_name)
  /\ Op = "get_app" => Req.path = <<"apps", Req.path[2]>>
  /\ Op \in {"get_by_vip", "get_by_svip"} => Req.path = <<"vips", Req.path[2]>>
  /\ Op = "get_app_instance" =>
       /\ Len(Req.path) = 3 /\ Req.path[1] = "apps"
       /\ Args[2] \notin {None, Some("")} =>
            Req.path[3] = Args[2][1] /\ (pc = "awaiting" => self = selfBefore[1])
       /\ Args[2] \in {None, Some("")} =>
            self._instance_id # None /\ Req.path[3] = self._instance_id[1]
  /\ Op = "get_instance" =>
       /\ Len(Req.path) = 2 /\ Req.path[1] = "instances"
       /\ Args[1] \notin {None, Some("")} =>
            Req.path[2] = Args[1][1] /\ (pc = "awaiting" => self = selfBefore[1])
       /\ Args[1] \in {None, Some("")} =>
            self._instance_id # None /\ Req.path[2] = self._instance_id[1]

\* get_app_instance given only an instance ID used it, defaulted the app name
\* and generated no ID
C9_Witness ==
  /\ Op = "get_app_instance" /\ Args = <<None, Some("i-9")>>
  /\ Req.path = <<"apps", Fmt(self._app_name), "i-9">>
  /\ self._app_name # None
  /\ self._instance_id = None

(* C10 as stated: every register descriptor holds a non-empty instanceId,  *)
(* the supplied value when one was supplied, else the generated value that *)
(* instance_id returns afterwards.                                         *)
C10_DescriptorInstanceIdNonEmpty ==
  Op = "register" =>
    /\ InstanceIdSent # ""
    /\ supplied # None => InstanceIdSent = supplied[1]
    /\ self._instance_id = Some(InstanceIdSent) /\ lastRead = self._instance_id

(* C10 as amended: the instanceId of every register descriptor is the      *)
(* supplied value when one was supplied, else the generated value that     *)
(* instance_id returns afterwards; it is non-empty unless the empty string *)
(* was supplied.                                                           *)
C10_DescriptorInstanceId ==
  Op = "register" =>
    /\ supplied # Some("") => InstanceIdSent # ""
    /\ supplied # None => InstanceIdSent = supplied[1]
    /\ self._instance_id = Some(InstanceIdSent) /\ lastRead = self._instance_id

\* a register() as first use of a client constructed without an instance ID
C10_Witness ==
  /\ Op = "register" /\ supplied = None /\ selfBefore[1]._instance_id = None
  /\ InstanceIdSent # "" /\ lastRead = Some(InstanceIdSent)

FaultStep == pc = "awaiting" /\ pc' = "idle" /\ response' = None

(* C12 as stated: a call whose request meets a network-level failure ends  *)
(* in a fault that is neither a EurekaException nor success, and every     *)
(* field of the client is as it was before the call.                       *)
C12_TransportFaultLeavesClientUnchanged ==
  [][FaultStep => /\ outcome'[1].kind \notin {"EurekaException", "return"}
                  /\ self' = selfBefore[1]]_vars

(* C12 as amended: a call whose request meets a network-level failure ends *)
(* in the transport's fault, neither a EurekaException nor success; the    *)
(* failure itself changes no field of the client, and over the whole call  *)
(* no field differs but _instance_id, which differs only when it was unset *)
(* before the call and the call generated it for its request.              *)
C12_TransportFaultChangesOnlyUnsetId ==
  [][FaultStep => /\ outcome'[1].kind = "TransportError"
                  /\ outcome'[1].kind \notin {"EurekaException", "return"}
                  /\ self' = self
                  /\ registered' = registered
                  /\ [self' EXCEPT !._instance_id = None]
                       = [selfBefore[1] EXCEPT !._instance_id = None]
                  /\ selfBefore[1]._instance_id # None
                       => self' = selfBefore[1]]_vars

\* a renew() of a client that has its ID ended in the transport's fault
C12_Witness ==
  /\ Ended /\ response = None /\ Op = "renew"
  /\ Kind = "TransportError"
  /\ selfBefore[1]._instance_id # None
  /\ self = selfBefore[1]

\* the coroutines whose call is in flight
InFlight == {t \in DOMAIN tasks : tasks[t].pc = "awaiting"}

(* C15: when operations of one client overlap, the instance ID is generated *)
(* at most once: under every interleaving the requests of all overlapping   *)
(* calls and of every later call carry one and the same instance ID, the    *)
(* one the client holds.                                                    *)
C15_OverlappingCallsShareOneId ==
  /\ Cardinality(idsUsed) <= 1
  /\ \A t \in DOMAIN tasks :
       tasks[t].pc # "ready" =>
         /\ tasks[t].id \in idsUsed
         /\ self._instance_id = Some(tasks[t].id)

\* a renew, a register and a get_instance of a client built without an ID are
\* in flight together, and a later call was made after one of them ended
C15_Witness ==
  /\ supplied = None
  /\ nCalls = MaxOverlapCalls
  /\ Cardinality(InFlight) = NumTasks
  /\ {tasks[t].op : t \in InFlight} = OverlapOps
  /\ Cardinality(idsUsed) = 1

(* C13: in both heartbeat runners no EurekaException escapes an invocation *)
(* of renew_lease, whatever status the renewal (or a re-registration the   *)
(* invocation performs) meets, and while the runner is running and no      *)
(* invocation is in flight the next tick invokes renew() again.            *)
C13_NoRegistryErrorEscapes ==
  /\ runner.escaped # "EurekaException"
  /\ runner.main = "running" /\ runner.job = "idle" /\ runner.ticks < MaxTicks
       => ENABLED Tick

(* C14: in the package's runner a renew() of renew_lease that fails with   *)
(* status 404 is followed in the same invocation by exactly one register() *)
(* for the same app name and instance ID; a renew() that is still awaited, *)
(* succeeds or fails in any other way is followed by none.                 *)
C14_Renew404ReRegistersOnce ==
  runner.kind = "package" =>
    IF runner.renewOutcome = Some([kind |-> "EurekaException", status |-> 404])
      THEN /\ Len(runner.registerReqs) = 1
           /\ runner.registerReqs[1] = runner.renewReq[1]
      ELSE runner.registerReqs = << >>

\* a renew_lease of the package's runner met a 404, registered again with the
\* renew's app name and instance ID, and returned
C14_Witness ==
  /\ runner.kind = "package"
  /\ runner.renewOutcome = Some([kind |-> "EurekaException", status |-> 404])
  /\ runner.job = "idle" /\ runner.escaped = "none"
  /\ Len(runner.registerReqs) = 1
  /\ runner.registerReqs[1] = runner.renewReq[1]
  /\ wire[Len(wire)] = Event("ok", "register", "job")

\* the positions of the wire log at which the deregister request was sent
DeregisterSent ==
  {i \in 1..Len(wire) : wire[i] = Event("sent", "deregister", "main")}

(* C16: the requests of the package's runner follow the lifecycle order:   *)
(* a renew request is sent only after the initial register() has returned; *)
(* if the initial register() raises nothing else is sent; once shutdown    *)
(* has started exactly one deregister request has been sent, and after it  *)
(* no renew or register request is sent or completed.                      *)
C16_LifecycleOrder ==
  runner.kind = "package" =>
    /\ \A i \in 1..Len(wire) :
         wire[i].op = "renew" =>
           \E j \in 1..(i - 1) : wire[j] = Event("ok", "register", "main")
    /\ (\E j \in 1..Len(wire) : wire[j] = Event("raised", "register", "main"))
         => Len(wire) = 2
    /\ Cardinality(DeregisterSent) <= 1
    /\ runner.main \in {"deregistering", "closed"}
         => Cardinality(DeregisterSent) = 1
    /\ \A i \in DeregisterSent :
         \A j \in (i + 1)..Len(wire) : wire[j].op = "deregister"

====
